---- MODULE Spec2Model ----
(***************************************************************************)
(* id-pak: reading the header and the table of contents of an Id PAK       *)
(* archive (src/header.rs, src/fileentry.rs, src/pak.rs).                  *)
(*                                                                         *)
(* Bytes are the integers 0..255.  A byte slice is a sequence of bytes.    *)
(* A String is the sequence of the code points of its characters.          *)
(***************************************************************************)
EXTENDS Integers, Sequences, FiniteSets, TLC

VARIABLES
    source,     \* the bytes of the underlying reader R
    alive,      \* whether an IdPak handle exists
    pos,        \* IdPak.reader: the cursor of the reader
    header,     \* IdPak.header
    files,      \* IdPak.files: BTreeMap<String, IdPakFileEntry>
    result,     \* what the last IdPak::new / update returned
    reads,      \* the read_exact calls of the last load, in order
    prevFiles,  \* IdPak.files when the last load began
    fault,      \* the seek that failed in the last load, if any
    op,         \* the last operation
    dbuf,       \* the byte slice last given to a decoder
    dres        \* what the decoder returned for it

vars == <<source, alive, pos, header, files, result, reads, prevFiles, fault, op, dbuf, dres>>

pakVars == <<source, alive, pos, header, files, result, reads, prevFiles, fault, op>>

decVars == <<dbuf, dres>>

-----------------------------------------------------------------------------
(* Constants of the program *)

PAK_SIG == <<80, 65, 67, 75>>

SIG_LEN == 4

HEADER_SIZE == 12

NAME_LEN == 56

FILE_ENTRY_SIZE == 64

-----------------------------------------------------------------------------
(* Bounds of the model *)

\* the most records an archive of the model holds
MaxRecs == 2

\* the most bytes a decoder input is longer than the structure it encodes
MaxExtra == 2

-----------------------------------------------------------------------------
(* Primitive conversions *)

\* `b as c_char` where c_char is i8: the byte's two's complement value
as_c_char(b) == IF b >= 128 THEN b - 256 ELSE b

\* `c as u8`, then u8::from_le (the identity on one byte)
as_u8(c) == (c + 256) % 256

\* the bytes taken most significant first
from_le_bytes_be(b) == b[4] + 256 * b[3] + 65536 * b[2] + 16777216 * b[1]

\* u32::from_le_bytes
from_le_bytes(b) == b[1] + 256 * b[2] + 65536 * b[3] + 16777216 * b[4]

\* slice.split_at(mid): the two halves
split_at(s, mid) == <<SubSeq(s, 1, mid), SubSeq(s, mid + 1, Len(s))>>

Ok(v) == [ok |-> TRUE, err |-> "", val |-> v]

Err(e) == [ok |-> FALSE, err |-> e, val |-> <<>>]

-----------------------------------------------------------------------------
(* header.rs *)

IdPakHeaderDefault == [id |-> PAK_SIG, offset |-> HEADER_SIZE, size |-> 0]

\* try_from with the signature compared before the length
HeaderTryFrom_sigfirst(bytes) ==
    LET id == [i \in 1..SIG_LEN |-> IF i <= Len(bytes) THEN as_c_char(bytes[i]) ELSE 0]
    IN  IF id # PAK_SIG THEN Err("Invalid signature.")
        ELSE IF Len(bytes) < HEADER_SIZE THEN Err("Not enough data for header.")
        ELSE LET tail == split_at(bytes, SIG_LEN)[2]
                 offset == split_at(tail, 4)[1]
                 size == split_at(tail, 4)[2]
             IN  IF Len(size) # 4 THEN Err("Invalid size.")
                 ELSE Ok([id |-> id, offset |-> from_le_bytes(offset),
                          size |-> from_le_bytes(size)])

\* IdPakHeader::try_from(&[u8])
HeaderTryFrom(bytes) ==
    IF Len(bytes) < HEADER_SIZE THEN Err("Not enough data for header.")
    ELSE LET sig == split_at(bytes, SIG_LEN)[1]
             tail == split_at(bytes, SIG_LEN)[2]
             id == [i \in 1..SIG_LEN |-> as_c_char(sig[i])]
         IN  IF id # PAK_SIG THEN Err("Invalid signature.")
             ELSE LET offset == split_at(tail, 4)[1]
                      size == split_at(tail, 4)[2]
                  IN  IF Len(offset) # 4 THEN Err("Invalid offset.")
                      ELSE IF Len(size) # 4 THEN Err("Invalid size.")
                      ELSE Ok([id |-> id, offset |-> from_le_bytes(offset),
                               size |-> from_le_bytes(size)])

-----------------------------------------------------------------------------
(* fileentry.rs *)

\* get_name that skips zeros instead of stopping at the first
get_name_nostop(entry) ==
    LET nz == SelectSeq(entry.name, LAMBDA c : c # 0)
    IN  [i \in 1..Len(nz) |-> as_u8(nz[i])]

\* IdPakFileEntry::get_name: the characters of name before its first 0
get_name(entry) ==
    LET zeros == {i \in 1..NAME_LEN : entry.name[i] = 0}
        n == IF zeros = {} THEN NAME_LEN
             ELSE (CHOOSE i \in zeros : \A j \in zeros : i <= j) - 1
    IN  [i \in 1..n |-> as_u8(entry.name[i])]

\* try_from that decodes the first 64 bytes of a longer slice
FileEntryTryFrom_prefix(bytes) ==
    IF Len(bytes) < FILE_ENTRY_SIZE THEN Err("Not enough data for file entry.")
    ELSE Ok([name |-> [i \in 1..NAME_LEN |-> as_c_char(bytes[i])],
             offset |-> from_le_bytes(SubSeq(bytes, 57, 60)),
             size |-> from_le_bytes(SubSeq(bytes, 61, 64))])

\* IdPakFileEntry::try_from(&[u8])
FileEntryTryFrom(bytes) ==
    IF Len(bytes) < FILE_ENTRY_SIZE THEN Err("Not enough data for file entry.")
    ELSE LET sig == split_at(bytes, NAME_LEN)[1]
             tail == split_at(bytes, NAME_LEN)[2]
             path == [i \in 1..NAME_LEN |-> as_c_char(sig[i])]
             offset == split_at(tail, 4)[1]
             size == split_at(tail, 4)[2]
         IN  IF Len(offset) # 4 THEN Err("Invalid offset.")
             ELSE IF Len(size) # 4 THEN Err("Invalid size.")
             ELSE Ok([name |-> path, offset |-> from_le_bytes(offset),
                      size |-> from_le_bytes(size)])

-----------------------------------------------------------------------------
(* pak.rs *)

EmptyMap == [k \in {} |-> k]

\* insert that leaves the value of a key already there
insert_keepfirst(m, k, v) ==
    IF k \in DOMAIN m THEN m ELSE [x \in DOMAIN m \cup {k} |-> IF x = k THEN v ELSE m[x]]

\* BTreeMap::insert: the value replaces the one stored under an equal key
insert(m, k, v) == [x \in DOMAIN m \cup {k} |-> IF x = k THEN v ELSE m[x]]

\* BufReader::seek(SeekFrom::Start(to)): the cursor after a seek that succeeds
seek(at, to) == to

\* Read::read_exact on a buffer of n bytes, with the cursor at `at`
read_exact(src, at, n) ==
    IF at + n <= Len(src)
    THEN [ok |-> TRUE, buf |-> SubSeq(src, at + 1, at + n), pos |-> at + n]
    ELSE [ok |-> FALSE, buf |-> <<>>, pos |-> IF at >= Len(src) THEN at ELSE Len(src)]

\* the loop bound one short
entry_count_from1(size) == IF size < FILE_ENTRY_SIZE THEN 0 ELSE (size \div FILE_ENTRY_SIZE) - 1

\* the loop bound rounded up
entry_count_ceil(size) == (size + FILE_ENTRY_SIZE - 1) \div FILE_ENTRY_SIZE

\* self.header.size / FILE_ENTRY_SIZE, the bound of the loop of update_file_table
entry_count(size) == size \div FILE_ENTRY_SIZE

\* IdPak::update_header. h is the handle; f names the seek that fails, if any
update_header(h, src, f) ==
    IF f = "seek_header" THEN [h EXCEPT !.res = "UpdateFailure"]
    ELSE LET r == read_exact(src, seek(h.pos, 0), HEADER_SIZE)
             h1 == [h EXCEPT !.pos = r.pos,
                             !.reads = Append(@, [at |-> seek(h.pos, 0),
                                                  n |-> HEADER_SIZE, ok |-> r.ok])]
         IN  IF ~r.ok THEN [h1 EXCEPT !.res = "UpdateFailure"]
             ELSE LET d == HeaderTryFrom(r.buf)
                  IN  IF ~d.ok THEN [h1 EXCEPT !.res = "panic"]
                      ELSE [h1 EXCEPT !.header = d.val, !.res = "Ok"]

RECURSIVE read_entries(_, _, _)
\* the for loop of IdPak::update_file_table, with `left` iterations to go
read_entries(h, src, left) ==
    IF left = 0 THEN [h EXCEPT !.res = "Ok"]
    ELSE LET r == read_exact(src, h.pos, FILE_ENTRY_SIZE)
             h1 == [h EXCEPT !.pos = r.pos,
                             !.reads = Append(@, [at |-> h.pos,
                                                  n |-> FILE_ENTRY_SIZE, ok |-> r.ok])]
         IN  IF ~r.ok THEN [h1 EXCEPT !.res = "UpdateFailure"]
             ELSE LET e == FileEntryTryFrom(r.buf)
                  IN  IF ~e.ok THEN [h1 EXCEPT !.res = "UpdateFailure"]
                      ELSE read_entries(
                               [h1 EXCEPT !.files = insert(@, get_name(e.val), e.val)],
                               src, left - 1)

\* IdPak::update_file_table
update_file_table(h, src, f) ==
    IF f = "seek_table" THEN [h EXCEPT !.res = "UpdateFailure"]
    ELSE read_entries([h EXCEPT !.pos = seek(h.pos, h.header.offset)], src,
                      entry_count(h.header.size))

\* update without the reset of self.files
update_keepfiles(h, src, f) ==
    LET h1 == update_header([h EXCEPT !.reads = <<>>], src, f)
    IN  IF h1.res # "Ok" THEN h1 ELSE update_file_table(h1, src, f)

\* IdPak::update
update(h, src, f) ==
    LET h0 == [h EXCEPT !.files = EmptyMap, !.reads = <<>>]
        h1 == update_header(h0, src, f)
    IN  IF h1.res # "Ok" THEN h1 ELSE update_file_table(h1, src, f)

\* IdPak::get_file_count
get_file_count == Cardinality(DOMAIN files)

-----------------------------------------------------------------------------
(* The archives and the byte slices the model draws its inputs from *)

\* s, zero-filled to n bytes
Pad(s, n) == s \o [i \in 1..(n - Len(s)) |-> 0]

\* the four bytes of a u32, least significant first
LE32(n) == <<n % 256, (n \div 256) % 256, (n \div 65536) % 256, (n \div 16777216) % 256>>

\* the 64 bytes of a table record: name field, offset, size
Record(name, offset, size) == Pad(name, NAME_LEN) \o LE32(offset) \o LE32(size)

\* the 12 bytes of a header
HeaderBytes(sig, offset, size) == sig \o LE32(offset) \o LE32(size)

\* "a"; "a", a zero, then "z"; and "b" followed by the byte E9
RecPool ==
    { Record(<<97>>, 12, 1), Record(<<97, 0, 122>>, 13, 2), Record(<<98, 233>>, 14, 3) }

\* the tables: up to MaxRecs records of the pool, none of them twice
RecSeqs ==
    {rs \in UNION {[1..n -> RecPool] : n \in 0..MaxRecs} :
        \A i \in 1..Len(rs), j \in 1..Len(rs) : i # j => rs[i] # rs[j]}

\* the records of rs, one after the other
Flat(rs) ==
    [i \in 1..(FILE_ENTRY_SIZE * Len(rs)) |->
        rs[((i - 1) \div FILE_ENTRY_SIZE) + 1][((i - 1) % FILE_ENTRY_SIZE) + 1]]

Kinds ==
    { "good", "rem_absent", "rem_present", "cut", "more", "badsig", "gap", "overlay",
      "far" }

\* an archive built around the records rs
Archive(kind, rs) ==
    LET n == Len(rs)
        table == FILE_ENTRY_SIZE * n
        body == Flat(rs)
    IN  CASE kind = "good" -> HeaderBytes(PAK_SIG, 12, table) \o body
          [] kind = "rem_absent" -> HeaderBytes(PAK_SIG, 12, table + 5) \o body
          [] kind = "rem_present" ->
                HeaderBytes(PAK_SIG, 12, table + 5) \o body \o <<1, 2, 3, 4, 5>>
          [] kind = "cut" ->
                SubSeq(HeaderBytes(PAK_SIG, 12, table) \o body, 1, 12 + table - 1)
          [] kind = "more" -> HeaderBytes(PAK_SIG, 12, table + FILE_ENTRY_SIZE) \o body
          [] kind = "badsig" -> HeaderBytes(<<80, 65, 67, 0>>, 12, table) \o body
          [] kind = "gap" -> HeaderBytes(PAK_SIG, 15, table) \o <<7, 7, 7>> \o body
          [] kind = "overlay" -> HeaderBytes(PAK_SIG, 0, table) \o body
          [] kind = "far" -> HeaderBytes(PAK_SIG, 500, table) \o body

Sources == {Archive(k, rs) : k \in Kinds, rs \in RecSeqs} \cup {<<>>}

\* where the cursor of a source given to IdPak::new may be
StartPositions == {0, 7}

Faults == {"none", "seek_header", "seek_table"}

HeaderFields == { <<87, 138, 22, 1>>, <<192, 84, 0, 0>>, <<127, 255, 255, 127>> }

Signatures ==
    { PAK_SIG, <<80, 65, 67, 0>>, <<81, 65, 67, 75>>, <<80, 193, 67, 75>>,
      <<80, 65, 68, 75>>, <<0, 0, 0, 0>> }

HeaderBufs ==
    { SubSeq(sig \o a \o b \o [i \in 1..MaxExtra |-> 0], 1, len) :
        sig \in Signatures, a \in HeaderFields, b \in HeaderFields,
        len \in 0..(HEADER_SIZE + MaxExtra) }

NameFields ==
    { Pad(<<115, 111, 117, 110, 100, 47, 105, 116, 101, 109, 115, 47, 114, 95, 105,
            116, 101, 109, 49, 46, 119, 97, 118>>, NAME_LEN),
      Pad(<<>>, NAME_LEN),
      Pad(<<0, 97>>, NAME_LEN),
      Pad(<<97, 0, 122>>, NAME_LEN),
      Pad(<<233, 97, 255>>, NAME_LEN),
      [i \in 1..NAME_LEN |-> 120],
      [i \in 1..NAME_LEN |-> IF i = NAME_LEN THEN 0 ELSE 65] }

EntryFields == { <<12, 0, 0, 0>>, <<166, 26, 0, 0>>, <<1, 2, 3, 4>> }

EntryBufs ==
    { SubSeq(nm \o a \o b \o [i \in 1..MaxExtra |-> 9], 1, len) :
        nm \in NameFields, a \in EntryFields, b \in EntryFields,
        len \in {0, 32, 63} \cup (FILE_ENTRY_SIZE..(FILE_ENTRY_SIZE + MaxExtra)) }

-----------------------------------------------------------------------------
(* The state machine of a handle *)

NoDecode == [kind |-> "none", ok |-> FALSE, err |-> "", val |-> <<>>, name |-> <<>>]

InitPak ==
    /\ alive = FALSE
    /\ pos = 0
    /\ header = IdPakHeaderDefault
    /\ files = EmptyMap
    /\ result = "none"
    /\ reads = <<>>
    /\ prevFiles = EmptyMap
    /\ fault = "none"
    /\ op = "none"

Init ==
    /\ source \in Sources
    /\ InitPak
    /\ dbuf = <<>>
    /\ dres = NoDecode

\* the handle after update has run on h
Loaded(h) ==
    /\ pos' = h.pos
    /\ header' = h.header
    /\ files' = h.files
    /\ reads' = h.reads
    /\ result' = h.res

\* IdPak::new(source), the cursor of source being at p: Err drops the handle
New(p, f) ==
    /\ op = "none"
    /\ LET h == update([pos |-> p, header |-> IdPakHeaderDefault, files |-> EmptyMap,
                        reads |-> <<>>, res |-> "Ok"], source, f)
       IN  /\ Loaded(h)
           /\ alive' = (h.res = "Ok")
    /\ prevFiles' = EmptyMap
    /\ fault' = f
    /\ op' = "new"
    /\ UNCHANGED <<source, dbuf, dres>>

\* IdPak::update on the handle, its source being what it is now; the handle
\* outlives an Err, and is lost when the load panics
Update(f) ==
    /\ alive
    /\ LET h == update([pos |-> pos, header |-> header, files |-> files,
                        reads |-> <<>>, res |-> "Ok"], source, f)
       IN  /\ Loaded(h)
           /\ alive' = (h.res # "panic")
    /\ prevFiles' = files
    /\ fault' = f
    /\ op' = "update"
    /\ UNCHANGED <<source, dbuf, dres>>

\* the bytes behind the reader change between two loads
SourceChange(s) ==
    /\ alive
    /\ op # "write"
    /\ s # source
    /\ source' = s
    /\ op' = "write"
    /\ result' = "none"
    /\ reads' = <<>>
    /\ prevFiles' = EmptyMap
    /\ fault' = "none"
    /\ UNCHANGED <<alive, pos, header, files, dbuf, dres>>

Next ==
    \/ \E p \in StartPositions, f \in Faults : New(p, f)
    \/ \E f \in Faults : Update(f)
    \/ \E s \in Sources : SourceChange(s)

Spec == Init /\ [][Next]_vars

-----------------------------------------------------------------------------
(* The decoders alone, on byte slices of any length *)

InitDecode ==
    /\ source = <<>>
    /\ InitPak
    /\ dbuf = <<>>
    /\ dres = NoDecode

\* IdPakHeader::try_from(b)
DecodeHeader(b) ==
    /\ dbuf' = b
    /\ LET r == HeaderTryFrom(b)
       IN  dres' = [kind |-> "header", ok |-> r.ok, err |-> r.err, val |-> r.val,
                    name |-> <<>>]
    /\ UNCHANGED pakVars

\* IdPakFileEntry::try_from(b), then get_name on the entry
DecodeEntry(b) ==
    /\ dbuf' = b
    /\ LET r == FileEntryTryFrom(b)
       IN  dres' = [kind |-> "entry", ok |-> r.ok, err |-> r.err, val |-> r.val,
                    name |-> IF r.ok THEN get_name(r.val) ELSE <<>>]
    /\ UNCHANGED pakVars

NextDecode ==
    \/ \E b \in HeaderBufs : DecodeHeader(b)
    \/ \E b \in EntryBufs : DecodeEntry(b)

SpecDecode == InitDecode /\ [][NextDecode]_vars

-----------------------------------------------------------------------------
(* What the format says of the bytes of the source, stated without the      *)
(* decoders above                                                           *)

IsLoad == op \in {"new", "update"}

\* the little-endian u32 at bytes i .. i+3 of s (i counted from 1)
LEAt(s, i) == s[i] + 256 * s[i + 1] + 65536 * s[i + 2] + 16777216 * s[i + 3]

\* the first 12 bytes of the source are there and begin with "PACK"
SrcHeaderOk ==
    /\ Len(source) >= 12
    /\ source[1] = 80 /\ source[2] = 65 /\ source[3] = 67 /\ source[4] = 75

TocOffset == LEAt(source, 5)

TocSize == LEAt(source, 9)

\* floor(toc_size / 64)
WholeRecords == TocSize \div 64

\* record i (from 0) of the table lies within the source
RecAvailable(i) == TocOffset + 64 * (i + 1) <= Len(source)

\* the bytes of b before its first zero, among the first 56
NameOf(b) ==
    LET k == CHOOSE k \in 0..56 : (\A i \in 1..k : b[i] # 0) /\ (k < 56 => b[k + 1] = 0)
    IN  SubSeq(b, 1, k)

RecName(i) == NameOf(SubSeq(source, TocOffset + 64 * i + 1, TocOffset + 64 * i + 56))

RecOffset(i) == LEAt(source, TocOffset + 64 * i + 57)

RecSize(i) == LEAt(source, TocOffset + 64 * i + 61)

RecIds == 0..(WholeRecords - 1)

\* the header and every whole record of the table lie within the source
TableInSource == SrcHeaderOk /\ \A i \in RecIds : RecAvailable(i)

NamesDistinct == \A i \in RecIds, j \in RecIds : i # j => RecName(i) # RecName(j)

\* the last record of the table that has the name of record i
LastWithName(i) ==
    CHOOSE j \in RecIds :
        /\ RecName(j) = RecName(i)
        /\ \A k \in RecIds : RecName(k) = RecName(i) => k <= j

\* the index a complete load of the source builds: name -> <<offset, size>>
CompleteIndex ==
    [k \in {RecName(i) : i \in RecIds} |->
        LET j == CHOOSE j \in RecIds :
                    /\ RecName(j) = k
                    /\ \A m \in RecIds : RecName(m) = k => m <= j
        IN  <<RecOffset(j), RecSize(j)>>]

\* the offsets and sizes of an index, by name
OffsetsAndSizes(m) == [k \in DOMAIN m |-> <<m[k].offset, m[k].size>>]

-----------------------------------------------------------------------------
(* Claims about the load: IdPak::new and IdPak::update *)

\* C1: a load whose first 12 bytes are read but fail header decoding returns
\* UpdateFailure, and nothing else (no panic).
C1_HeaderDecodeFailureIsUpdateFailure ==
    (IsLoad /\ fault # "seek_header" /\ Len(source) >= 12 /\ ~SrcHeaderOk)
        => result = "UpdateFailure"

\* C2 (as claimed): after every successful load get_file_count() is
\* floor(toc_size / 64), repeated names included.
C2_CountIsWholeRecords ==
    (IsLoad /\ result = "Ok") => get_file_count = WholeRecords

\* C2 (amended): after a successful load get_file_count() is the number of distinct
\* names among the floor(toc_size / 64) whole records, which is floor(toc_size / 64)
\* when no two records decode to the same name; the remainder bytes are ignored.
C2_CountIsDistinctNames ==
    (IsLoad /\ result = "Ok") =>
        /\ TableInSource
        /\ get_file_count = Cardinality({RecName(i) : i \in RecIds})
        /\ NamesDistinct => get_file_count = WholeRecords

C2_Witness ==
    /\ IsLoad /\ result = "Ok"
    /\ TocSize % 64 # 0
    /\ WholeRecords >= 2
    /\ NamesDistinct
    /\ get_file_count = WholeRecords

\* C3: when two or more records decode to the same name, the index of a successful
\* load holds that name once, with the offset and size of the last such record.
C3_LastWriterWins ==
    (IsLoad /\ result = "Ok") =>
        /\ TableInSource
        /\ \A i \in RecIds, j \in RecIds :
            (i < j /\ RecName(i) = RecName(j) /\ LastWithName(i) = j) =>
                /\ RecName(j) \in DOMAIN files
                /\ files[RecName(j)].offset = RecOffset(j)
                /\ files[RecName(j)].size = RecSize(j)
                /\ Cardinality({k \in DOMAIN files : k = RecName(j)}) = 1

C3_Witness ==
    /\ IsLoad /\ result = "Ok"
    /\ \E i \in RecIds, j \in RecIds :
            /\ i < j /\ RecName(i) = RecName(j) /\ LastWithName(i) = j
            /\ RecOffset(i) # RecOffset(j)
            /\ RecSize(i) # RecSize(j)
            /\ files[RecName(j)].offset = RecOffset(j)

\* C4: a load that fails with UpdateFailure leaves the index either as the complete
\* index of the new load or as it was before the load began.
C4_FailedLoadIsAtomic ==
    (IsLoad /\ result = "UpdateFailure") =>
        \/ files = prevFiles
        \/ /\ TableInSource
           /\ OffsetsAndSizes(files) = CompleteIndex

\* the records of the table the source is too short for
ShortRecords == {i \in RecIds : ~RecAvailable(i)}

FirstShort == CHOOSE i \in ShortRecords : \A j \in ShortRecords : i <= j

\* C5: a source too short for the 12 header bytes, or for the 64 bytes of one of the
\* floor(toc_size / 64) records, makes the load stop at that read, read nothing
\* further and return UpdateFailure; the bytes of a trailing partial record are
\* never read, and their absence does not fail the load.
C5_ShortReadStopsLoad ==
    IsLoad =>
        /\ Len(source) < 12 =>
            /\ result = "UpdateFailure"
            /\ fault = "none" => reads = <<[at |-> 0, n |-> 12, ok |-> FALSE]>>
        /\ (SrcHeaderOk /\ fault = "none") =>
            /\ reads[1] = [at |-> 0, n |-> 12, ok |-> TRUE]
            /\ ShortRecords # {} =>
                /\ result = "UpdateFailure"
                /\ Len(reads) = FirstShort + 2
                /\ reads[Len(reads)] = [at |-> TocOffset + 64 * FirstShort, n |-> 64,
                                        ok |-> FALSE]
                /\ \A r \in 1..(Len(reads) - 1) : reads[r].ok
            /\ ShortRecords = {} =>
                /\ result = "Ok"
                /\ Len(reads) = WholeRecords + 1
            /\ \A r \in 2..Len(reads) :
                /\ reads[r].at = TocOffset + 64 * (r - 2)
                /\ reads[r].at + reads[r].n <= TocOffset + 64 * WholeRecords

C5_Witness ==
    /\ IsLoad /\ fault = "none" /\ SrcHeaderOk
    /\ TocSize % 64 = 0
    /\ ShortRecords # {} /\ FirstShort >= 1
    /\ Len(source) > TocOffset + 64 * FirstShort
    /\ result = "UpdateFailure"
    /\ Len(reads) = FirstShort + 2

\* C10: after a successful load, also a repeated one and whatever the cursor was,
\* the keys of the index are the names of the records at toc_offset + 64*i,
\* 0 <= i < floor(toc_size / 64), of the header at position 0; every key is
\* get_name() of its entry; nothing of an earlier load survives; and
\* get_file_count() is at most floor(toc_size / 64).
C10_IndexIsTableOfSource ==
    (IsLoad /\ result = "Ok") =>
        /\ TableInSource
        /\ header.offset = TocOffset /\ header.size = TocSize
        /\ DOMAIN files = {RecName(i) : i \in RecIds}
        /\ \A k \in DOMAIN files : get_name(files[k]) = k
        /\ OffsetsAndSizes(files) = CompleteIndex
        /\ get_file_count <= WholeRecords

C10_Witness ==
    /\ op = "update" /\ result = "Ok"
    /\ \E k \in DOMAIN prevFiles : k \notin DOMAIN files
    /\ \E k \in DOMAIN files : k \notin DOMAIN prevFiles
    /\ TocOffset # 12
    /\ DOMAIN files = {RecName(i) : i \in RecIds}


-----------------------------------------------------------------------------
(* Claims about the decoders: IdPakHeader::try_from, IdPakFileEntry::try_from *)

\* the first four bytes of the slice given to the decoder are "PACK"
BufHasSig ==
    /\ Len(dbuf) >= 4
    /\ dbuf[1] = 80 /\ dbuf[2] = 65 /\ dbuf[3] = 67 /\ dbuf[4] = 75

HeaderExample == <<80, 65, 67, 75, 87, 138, 22, 1, 192, 84, 0, 0>>

\* C6 (as claimed): the header decoder succeeds on every slice of at least 12
\* bytes that begins with "PACK", with toc_offset the little-endian u32 of bytes
\* 4..8 and toc_size that of bytes 8..12.
C6_DecodesAtLeastTwelve ==
    (dres.kind = "header" /\ Len(dbuf) >= 12 /\ BufHasSig) =>
        /\ dres.ok
        /\ dres.val.offset = LEAt(dbuf, 5)
        /\ dres.val.size = LEAt(dbuf, 9)

\* C6 (amended): the header decoder succeeds on every slice of exactly 12 bytes
\* that begins with "PACK", with toc_offset the little-endian u32 of bytes 4..8 and
\* toc_size that of bytes 8..12, whatever the two values are
\* (50 41 43 4B 57 8A 16 01 C0 54 00 00 gives 18254423 and 21696).
C6_DecodesExactlyTwelve ==
    /\ (dres.kind = "header" /\ Len(dbuf) = 12 /\ BufHasSig) =>
            /\ dres.ok
            /\ dres.val.offset = LEAt(dbuf, 5)
            /\ dres.val.size = LEAt(dbuf, 9)
    /\ (dres.kind = "header" /\ dbuf = HeaderExample) =>
            /\ dres.ok
            /\ dres.val.offset = 18254423
            /\ dres.val.size = 21696

C6_Witness ==
    /\ dres.kind = "header" /\ dbuf = HeaderExample
    /\ dres.ok
    /\ dres.val.offset = 18254423
    /\ dres.val.size = 21696

\* C7: a header slice shorter than 12 bytes fails with "Not enough data for
\* header." whatever it holds; a slice of exactly 12 bytes whose first 4 bytes are
\* not "PACK" fails with "Invalid signature.".
C7_LengthBeforeSignature ==
    dres.kind = "header" =>
        /\ Len(dbuf) < 12 => (~dres.ok /\ dres.err = "Not enough data for header.")
        /\ (Len(dbuf) = 12 /\ ~BufHasSig) => (~dres.ok /\ dres.err = "Invalid signature.")

C7_Witness ==
    /\ dres.kind = "header"
    /\ Len(dbuf) >= 4 /\ Len(dbuf) < 12 /\ ~BufHasSig
    /\ ~dres.ok /\ dres.err = "Not enough data for header."

\* C8: for a 64-byte record the name is the bytes of the 56-byte name field before
\* its first zero, one character per byte in order, and offset and size are the
\* little-endian u32 of bytes 56..60 and 60..64.
C8_EntryFields ==
    (dres.kind = "entry" /\ Len(dbuf) = 64) =>
        /\ dres.ok
        /\ LET k == Len(dres.name)
           IN  /\ k <= 56
               /\ \A i \in 1..k : dbuf[i] # 0 /\ dres.name[i] = dbuf[i]
               /\ k < 56 => dbuf[k + 1] = 0
        /\ dres.val.offset = LEAt(dbuf, 57)
        /\ dres.val.size = LEAt(dbuf, 61)

C8_Witness ==
    /\ dres.kind = "entry" /\ Len(dbuf) = 64 /\ dres.ok
    /\ dbuf[1] = 97 /\ dbuf[2] = 0 /\ dbuf[3] = 122
    /\ dres.name = <<97>>
    /\ dres.val.offset = 12 /\ dres.val.size = 6822

\* C9: a header slice longer than 12 bytes that begins with "PACK", and an entry
\* slice longer than 64 bytes, fail with "Invalid size."; an entry slice shorter
\* than 64 bytes fails with "Not enough data for file entry.".
C9_OverLengthRejected ==
    /\ (dres.kind = "header" /\ Len(dbuf) > 12 /\ BufHasSig) =>
            (~dres.ok /\ dres.err = "Invalid size.")
    /\ (dres.kind = "entry" /\ Len(dbuf) > 64) =>
            (~dres.ok /\ dres.err = "Invalid size.")
    /\ (dres.kind = "entry" /\ Len(dbuf) < 64) =>
            (~dres.ok /\ dres.err = "Not enough data for file entry.")

C9_Witness ==
    /\ dres.kind = "entry" /\ Len(dbuf) = 65
    /\ ~dres.ok /\ dres.err = "Invalid size."

====
